---- MODULE Spec2Model ----
(***************************************************************************)
(* Model of the covid19-mortality-rate data pipeline:                      *)
(*   src/src/data/make_dataset.py      (make_dataset and its helpers)      *)
(*   src/src/features/build_features.py (_normalize_col)                   *)
(*                                                                         *)
(* Tables are pandas DataFrames.  A table is a record                      *)
(*   [cols |-> sequence of column labels, rows |-> sequence of rows]       *)
(* and a row is [key |-> index label, cells |-> sequence of cells], the    *)
(* cells aligned with cols.  A row index may hold a label twice, as a      *)
(* pandas index may.  A cell is <<>> (NaN) or <<v>> (the number v).        *)
(* Floating point quotients are kept exact, as fractions.                  *)
(***************************************************************************)
EXTENDS Integers, Sequences, FiniteSets, TLC

VARIABLES
    pc,                  \* position of the running routine
    df,                  \* the table argument of the routine under study
                         \* (df, df_cases or wb_series in the source)
    arg,                 \* its other arguments (n; colname and how)
    ret,                 \* the value the routine returns
    all_covid_data,      \* make_dataset: the fetched raw time series
    covid_cases_rollup,  \* make_dataset: cases rolled up by country
    covid_deaths_rollup, \* make_dataset: deaths rolled up by country
    df_out               \* make_dataset: the table being assembled

vars == <<pc, df, arg, ret, all_covid_data, covid_cases_rollup, covid_deaths_rollup, df_out>>

None == [cols |-> <<>>, rows |-> <<>>]

(***************************************************************************)
(* Cells and sequences                                                     *)
(***************************************************************************)
NaN == <<>>

Val(v) == <<v>>

IsNull(c) == c = NaN

NotNull(c) == c # NaN

Range(s) == {s[i] : i \in DOMAIN s}

RECURSIVE SeqSum(_)
SeqSum(s) == IF s = <<>> THEN 0 ELSE Head(s) + SeqSum(Tail(s))

SetMax(S) == CHOOSE x \in S : \A y \in S : y <= x

SetMin(S) == CHOOSE x \in S : \A y \in S : x <= y

\* the positions i, in order, at which the boolean sequence b holds
Where(b) ==
    LET F[i \in 0..Len(b)] ==
            IF i = 0 THEN <<>>
            ELSE IF b[i] THEN Append(F[i - 1], i) ELSE F[i - 1]
    IN  F[Len(b)]

Keys(t) == [i \in DOMAIN t.rows |-> t.rows[i].key]

HasDuplicates(s) == \E i, j \in DOMAIN s : i < j /\ s[i] = s[j]

\* all sequences over S of length at most n
SeqsUpTo(S, n) == UNION {[1..k -> S] : k \in 0..n}

(***************************************************************************)
(* Column labels of the raw CSSE time series, and their parsing            *)
(***************************************************************************)
ProvinceCol == [name |-> "Province/State", m |-> 0, d |-> 0, y |-> 0]

LatCol == [name |-> "Lat", m |-> 0, d |-> 0, y |-> 0]

LongCol == [name |-> "Long", m |-> 0, d |-> 0, y |-> 0]

\* the column label "m/d/y", y the two-digit year
DateCol(m, d, y) == [name |-> "date", m |-> m, d |-> d, y |-> y]

IsLeap(Y) == (Y % 4 = 0) /\ ((Y % 100 # 0) \/ (Y % 400 = 0))

DaysInMonth(Y, m) ==
    IF m = 2 THEN (IF IsLeap(Y) THEN 29 ELSE 28)
    ELSE IF m \in {4, 6, 9, 11} THEN 30 ELSE 31

DaysBeforeYear(Y) == (Y - 1) * 365 + ((Y - 1) \div 4) - ((Y - 1) \div 100) + ((Y - 1) \div 400)

RECURSIVE DaysBeforeMonth(_, _)
DaysBeforeMonth(Y, m) ==
    IF m = 1 THEN 0 ELSE DaysBeforeMonth(Y, m - 1) + DaysInMonth(Y, m - 1)

\* datetime.strptime(x, '%m/%d/%y'): the calendar date as its day ordinal;
\* %y reads 69..99 as 1969..1999 and 00..68 as 2000..2068
strptime(x) ==
    LET Y == IF x.y < 69 THEN 2000 + x.y ELSE 1900 + x.y
    IN  DaysBeforeYear(Y) + DaysBeforeMonth(Y, x.m) + x.d

_convert_cols_to_dt(t) ==
    [cols |-> [i \in DOMAIN t.cols |-> strptime(t.cols[i])], rows |-> t.rows]

(***************************************************************************)
(* _rollup_by_country                                                      *)
(***************************************************************************)
\* the country vocabulary of the model in lexicographic order: groupby
\* returns its groups sorted by key
SortedCountries ==
    <<"China", "Cruise Ship", "Italy", "Mainland China", "Others", "Taiwan", "Taiwan*", "US">>

\* a sum that a missing cell turns into a missing value (skipna=False)
SumPropagateNa(cells) ==
    IF \E i \in DOMAIN cells : IsNull(cells[i]) THEN NaN
    ELSE Val(SeqSum([i \in DOMAIN cells |-> cells[i][1]]))

\* the sum of one group's cells in one column; pandas sums with skipna, so a
\* missing cell counts as 0 (and a group of missing cells sums to 0)
GroupSum(cells) ==
    Val(SeqSum([i \in DOMAIN cells |-> IF IsNull(cells[i]) THEN 0 ELSE cells[i][1]]))

\* gb.sum(): one row per key, numeric columns only (the string column
\* 'Province/State' is left out), each the sum over the key's rows
GroupBySum(t) ==
    LET numcols == Where([j \in DOMAIN t.cols |-> t.cols[j] # ProvinceCol])
        present == Where([k \in DOMAIN SortedCountries |->
                           \E i \in DOMAIN t.rows : t.rows[i].key = SortedCountries[k]])
        members(c) == Where([i \in DOMAIN t.rows |-> t.rows[i].key = c])
        rowOf(c) ==
            [key |-> c,
             cells |-> [n \in DOMAIN numcols |->
                          GroupSum([q \in DOMAIN members(c) |->
                                      t.rows[members(c)[q]].cells[numcols[n]]])]]
    IN  [cols |-> [n \in DOMAIN numcols |-> t.cols[numcols[n]]],
         rows |-> [p \in DOMAIN present |-> rowOf(SortedCountries[present[p]])]]

\* df.drop(labels, axis=1, errors='ignore')
DropCols(t, labels) ==
    LET keep == Where([j \in DOMAIN t.cols |-> t.cols[j] \notin labels])
    IN  [cols |-> [n \in DOMAIN keep |-> t.cols[keep[n]]],
         rows |-> [i \in DOMAIN t.rows |->
                     [key |-> t.rows[i].key,
                      cells |-> [n \in DOMAIN keep |-> t.rows[i].cells[keep[n]]]]]]

_rollup_by_country(t) == _convert_cols_to_dt(DropCols(GroupBySum(t), {LatCol, LongCol}))

(***************************************************************************)
(* Specification SpecRollup: _rollup_by_country on raw time series         *)
(***************************************************************************)
RollupMaxRows == 2

RollupMaxVal == 1

RollupCountries == {"Italy", "US"}

\* column layouts of a raw table: with and without the geographic columns,
\* and with the dates out of chronological order
RollupLayouts ==
    { <<ProvinceCol, LatCol, LongCol, DateCol(2, 29, 20), DateCol(3, 1, 20)>>,
      <<DateCol(12, 31, 19), DateCol(1, 1, 20)>>,
      <<LatCol, LongCol, DateCol(3, 1, 20), DateCol(2, 29, 20)>> }

CountCells(maxval) == {NaN} \cup {Val(v) : v \in 0..maxval}

\* the rows a raw table with columns cols may hold: counts (or gaps) under
\* the date columns, a coordinate under Lat and Long, no province name
RawRows(cols, countries, maxval) ==
    {r \in [key : countries, cells : [DOMAIN cols -> CountCells(maxval)]] :
        \A j \in DOMAIN cols :
            /\ cols[j] = ProvinceCol => r.cells[j] = NaN
            /\ cols[j] \in {LatCol, LongCol} => r.cells[j] = Val(1)}

RawTables(layouts, countries, maxrows, maxval) ==
    UNION {[cols : {cols}, rows : UNION {[1..k -> RawRows(cols, countries, maxval)] : k \in 1..maxrows}]
             : cols \in layouts}

Idle ==
    /\ all_covid_data = None
    /\ covid_cases_rollup = None
    /\ covid_deaths_rollup = None
    /\ df_out = None

InitRollup ==
    /\ pc = "rollup_call"
    /\ df \in RawTables(RollupLayouts, RollupCountries, RollupMaxRows, RollupMaxVal)
    /\ arg = <<>>
    /\ ret = None
    /\ Idle

RollupByCountry ==
    /\ pc = "rollup_call"
    /\ ret' = _rollup_by_country(df)
    /\ pc' = "rollup_done"
    /\ UNCHANGED <<df, arg, all_covid_data, covid_cases_rollup, covid_deaths_rollup, df_out>>

NextRollup == RollupByCountry

SpecRollup == InitRollup /\ [][NextRollup]_vars

\* the date labels of a raw table, in source order
DateLabels(t) ==
    LET at == Where([j \in DOMAIN t.cols |-> t.cols[j].name = "date"])
    IN  [n \in DOMAIN at |-> t.cols[at[n]]]

\* the total of country c under column label lab, adding row after row and
\* taking a missing cell as 0
RECURSIVE ColumnTotal(_, _, _, _)
ColumnTotal(t, c, lab, i) ==
    IF i = 0 THEN 0
    ELSE LET row == t.rows[i]
             j == CHOOSE q \in DOMAIN t.cols : t.cols[q] = lab
             own == IF row.key = c /\ NotNull(row.cells[j]) THEN row.cells[j][1] ELSE 0
         IN  own + ColumnTotal(t, c, lab, i - 1)

\* C8: the rollup has exactly one row per distinct country of the input; its
\* columns are the input's date columns, parsed, in source order (Lat, Long
\* and the province column are gone); each cell is the exact sum of the
\* country's input cells at that date, a missing cell counting as 0.
C8_RollupAdditive ==
    pc = "rollup_done" =>
        /\ ~HasDuplicates(Keys(ret))
        /\ Range(Keys(ret)) = Range(Keys(df))
        /\ Len(ret.cols) = Len(DateLabels(df))
        /\ \A n \in DOMAIN ret.cols : ret.cols[n] = strptime(DateLabels(df)[n])
        /\ \A i \in DOMAIN ret.rows :
              /\ Len(ret.rows[i].cells) = Len(ret.cols)
              /\ \A n \in DOMAIN ret.cols :
                    ret.rows[i].cells[n] =
                        Val(ColumnTotal(df, ret.rows[i].key, DateLabels(df)[n], Len(df.rows)))

\* a country has several sub-national rows, one of them with a missing cell,
\* the input has Lat and Long, and the rollup is done
C8_Witness ==
    /\ pc = "rollup_done"
    /\ LatCol \in Range(df.cols)
    /\ \E i, j \in DOMAIN df.rows :
          /\ i < j
          /\ df.rows[i].key = df.rows[j].key
          /\ \E q \in DOMAIN df.cols :
                df.cols[q].name = "date" /\ IsNull(df.rows[i].cells[q]) /\ df.rows[j].cells[q] = Val(1)

(***************************************************************************)
(* _clean_country_list                                                     *)
(***************************************************************************)
ignore_countries == {"Others", "Cruise Ship"}

\* the rename table with the reverse of its last entry added to it
country_rename_reversed ==
    [k \in {"Hong Kong SAR", "Taiwan*", "Czechia", "Brunei", "Iran (Islamic Republic of)",
            "Viet Nam", "Russian Federation", "Republic of Korea", "Republic of Moldova",
            "China", "Mainland China"} |->
        CASE k = "Hong Kong SAR" -> "Hong Kong"
          [] k = "Taiwan*" -> "Taiwan"
          [] k = "Czechia" -> "Czech Republic"
          [] k = "Brunei" -> "Brunei Darussalam"
          [] k = "Iran (Islamic Republic of)" -> "Iran"
          [] k = "Viet Nam" -> "Vietnam"
          [] k = "Russian Federation" -> "Russia"
          [] k = "Republic of Korea" -> "South Korea"
          [] k = "Republic of Moldova" -> "Moldova"
          [] k = "China" -> "Mainland China"
          [] k = "Mainland China" -> "China"]

country_rename ==
    [k \in {"Hong Kong SAR", "Taiwan*", "Czechia", "Brunei", "Iran (Islamic Republic of)",
            "Viet Nam", "Russian Federation", "Republic of Korea", "Republic of Moldova",
            "China"} |->
        CASE k = "Hong Kong SAR" -> "Hong Kong"
          [] k = "Taiwan*" -> "Taiwan"
          [] k = "Czechia" -> "Czech Republic"
          [] k = "Brunei" -> "Brunei Darussalam"
          [] k = "Iran (Islamic Republic of)" -> "Iran"
          [] k = "Viet Nam" -> "Vietnam"
          [] k = "Russian Federation" -> "Russia"
          [] k = "Republic of Korea" -> "South Korea"
          [] k = "Republic of Moldova" -> "Moldova"
          [] k = "China" -> "Mainland China"]

\* df.rename(mapping, axis=0): every index label that is a key of the
\* mapping is replaced by its value, the others are kept; cells are kept
RenameIndex(t, mapping) ==
    [cols |-> t.cols,
     rows |-> [i \in DOMAIN t.rows |->
                 [key |-> IF t.rows[i].key \in DOMAIN mapping
                          THEN mapping[t.rows[i].key] ELSE t.rows[i].key,
                  cells |-> t.rows[i].cells]]]

\* df.drop(labels, axis=0, errors='ignore'): every row with one of the
\* labels goes, a label that is not in the index is ignored
DropRows(t, labels) ==
    LET keep == Where([i \in DOMAIN t.rows |-> t.rows[i].key \notin labels])
    IN  [cols |-> t.cols, rows |-> [n \in DOMAIN keep |-> t.rows[keep[n]]]]

_clean_country_list(t) == DropRows(RenameIndex(t, country_rename), ignore_countries)

(***************************************************************************)
(* Specification SpecClean: _clean_country_list applied, and applied again *)
(***************************************************************************)
CleanMaxRows == 3

\* the position of a country name in the vocabulary
Code(k) == CHOOSE i \in DOMAIN SortedCountries : SortedCountries[i] = k

\* a country-indexed table with one column, which holds in each row the
\* code of the row's raw country name
CleanTables(maxrows) ==
    {[cols |-> <<"code">>,
      rows |-> [i \in DOMAIN ks |-> [key |-> ks[i], cells |-> <<Val(Code(ks[i]))>>]]]
        : ks \in SeqsUpTo(Range(SortedCountries), maxrows)}

InitClean ==
    /\ pc = "clean_call"
    /\ df \in CleanTables(CleanMaxRows)
    /\ arg = <<>>
    /\ ret = None
    /\ Idle

CleanCountryList ==
    /\ pc = "clean_call"
    /\ df' = _clean_country_list(df)
    /\ pc' = "cleaned"
    /\ UNCHANGED <<arg, ret, all_covid_data, covid_cases_rollup, covid_deaths_rollup, df_out>>

CleanCountryListAgain ==
    /\ pc = "cleaned"
    /\ df' = _clean_country_list(df)
    /\ pc' = "cleaned_again"
    /\ UNCHANGED <<arg, ret, all_covid_data, covid_cases_rollup, covid_deaths_rollup, df_out>>

NextClean == CleanCountryList \/ CleanCountryListAgain

SpecClean == InitClean /\ [][NextClean]_vars

\* C4: a table with one row per raw country key has, once cleaned, at most
\* one row per canonical country key.
C4_UniqueKeysAfterClean ==
    [][(pc = "clean_call" /\ pc' = "cleaned" /\ ~HasDuplicates(Keys(df)))
          => ~HasDuplicates(Keys(df'))]_vars

\* C10: cleaning a cleaned table changes nothing: same rows, same keys, same
\* cells.
C10_CleanIdempotent ==
    [][(pc = "cleaned" /\ pc' = "cleaned_again") => df' = df]_vars

\* a table cleaned twice in which the first cleaning renamed 'China' and
\* 'Taiwan*' and dropped the excluded row that came first
C10_Witness ==
    /\ pc = "cleaned_again"
    /\ Len(df.rows) = 2
    /\ df.rows[1] = [key |-> "Mainland China", cells |-> <<Val(Code("China"))>>]
    /\ df.rows[2] = [key |-> "Taiwan", cells |-> <<Val(Code("Taiwan*"))>>]

(***************************************************************************)
(* _compute_days_since_nth_case                                            *)
(* A Series is a sequence of [key |-> index label, val |-> cell].          *)
(***************************************************************************)
\* a mask that forgets the threshold and keeps every count
MaskBelowZero(cells, n) ==
    [j \in DOMAIN cells |-> IF NotNull(cells[j]) /\ cells[j][1] >= 0 THEN cells[j] ELSE NaN]

\* df_cases[df_cases >= n], one row of it: a cell below n becomes NaN
MaskBelow(cells, n) ==
    [j \in DOMAIN cells |-> IF NotNull(cells[j]) /\ cells[j][1] >= n THEN cells[j] ELSE NaN]

\* idxmin(axis=1), one row of it: the label of the column that holds the
\* row's smallest non-missing value, the first such column when several
\* hold it; missing when the row holds no value
IdxMin(cols, cells) ==
    LET nn == {j \in DOMAIN cells : NotNull(cells[j])}
    IN  IF nn = {} THEN NaN
        ELSE LET least == SetMin({cells[j][1] : j \in nn})
             IN  Val(cols[SetMin({j \in nn : cells[j][1] = least})])

\* df_cases.columns.max()
ColumnsMax(t) == SetMax(Range(t.cols))

\* lambda x: 0 if pd.isnull(x) else (df_cases.columns.max() - x).days
DaysSince(x, latest) == IF IsNull(x) THEN Val(0) ELSE Val(latest - x[1])

\* an adjustment that adds the month to every row
AdjustEveryRow(series) ==
    [i \in DOMAIN series |->
        [key |-> series[i].key,
         val |-> IF IsNull(series[i].val) THEN NaN ELSE Val(series[i].val[1] + 30)]]

\* if 'Mainland China' in index: .loc['Mainland China'] += 30 (every row
\* with that label; a missing value stays missing)
AdjustChina(series) ==
    [i \in DOMAIN series |->
        [key |-> series[i].key,
         val |-> IF series[i].key = "Mainland China" /\ NotNull(series[i].val)
                 THEN Val(series[i].val[1] + 30) ELSE series[i].val]]

\* fillna(v)
FillNa(series, v) ==
    [i \in DOMAIN series |->
        [key |-> series[i].key,
         val |-> IF IsNull(series[i].val) THEN Val(v) ELSE series[i].val]]

_compute_days_since_nth_case(df_cases, n) ==
    LET date_first_case ==
            [i \in DOMAIN df_cases.rows |->
                [key |-> df_cases.rows[i].key,
                 val |-> IdxMin(df_cases.cols, MaskBelow(df_cases.rows[i].cells, n))]]
        days_since_first_case ==
            [i \in DOMAIN date_first_case |->
                [key |-> date_first_case[i].key,
                 val |-> DaysSince(date_first_case[i].val, ColumnsMax(df_cases))]]
    IN  FillNa(AdjustChina(days_since_first_case), 0)

(***************************************************************************)
(* Specification SpecDays: _compute_days_since_nth_case on rolled-up cases *)
(***************************************************************************)
DaysMaxVal == 2

DaysMaxN == 2

DaysKeyLayouts == { <<"Mainland China", "Italy">>, <<"Italy", "US">> }

\* the date columns, as parsed by the rollup, in the chronological order of
\* the source files
DaysColLayouts ==
    { <<strptime(DateCol(1, 22, 20)), strptime(DateCol(1, 23, 20)), strptime(DateCol(3, 1, 20))>>,
      <<strptime(DateCol(12, 31, 19)), strptime(DateCol(1, 1, 20)), strptime(DateCol(2, 28, 20))>> }

\* country-wise tables of non-negative counts, rising over time or not
CaseTables(keylayouts, collayouts, maxval) ==
    UNION {[cols : {cols},
            rows : {r \in [DOMAIN ks -> [key : Range(ks), cells : [DOMAIN cols -> {Val(v) : v \in 0..maxval}]]] :
                       \A i \in DOMAIN ks : r[i].key = ks[i]}]
             : <<ks, cols>> \in keylayouts \X collayouts}

InitDays ==
    /\ pc = "days_call"
    /\ df \in CaseTables(DaysKeyLayouts, DaysColLayouts, DaysMaxVal)
    /\ arg \in [n : 1..DaysMaxN]
    /\ ret = None
    /\ Idle

ComputeDaysSinceNthCase ==
    /\ pc = "days_call"
    /\ ret' = _compute_days_since_nth_case(df, arg.n)
    /\ pc' = "days_done"
    /\ UNCHANGED <<df, arg, all_covid_data, covid_cases_rollup, covid_deaths_rollup, df_out>>

NextDays == ComputeDaysSinceNthCase

SpecDays == InitDays /\ [][NextDays]_vars

\* the row reaches the threshold n at some date
Reaches(cells, n) == \E j \in DOMAIN cells : cells[j][1] >= n

\* the leftmost column, in column order, whose value is >= n
LeftmostReach(cells, n) == SetMin({j \in DOMAIN cells : cells[j][1] >= n})

\* the column idxmin picks: the first one holding the smallest value >= n
SmallestReach(cells, n) ==
    CHOOSE j \in DOMAIN cells :
        /\ cells[j][1] >= n
        /\ \A q \in DOMAIN cells :
              cells[q][1] >= n =>
                  \/ cells[j][1] < cells[q][1]
                  \/ (cells[j][1] = cells[q][1] /\ j <= q)

Latest(t) == CHOOSE x \in Range(t.cols) : \A y \in Range(t.cols) : y <= x

NonDecreasing(t, cells) ==
    \A j, q \in DOMAIN cells : t.cols[j] <= t.cols[q] => cells[j][1] <= cells[q][1]

\* C2 (as claimed): for every row that reaches n, non-decreasing or not, and
\* is not 'Mainland China', the result is the latest date minus the date of
\* the leftmost column whose value is >= n.
C2_LeftmostFirstCase ==
    pc = "days_done" =>
        \A i \in DOMAIN df.rows :
            (df.rows[i].key # "Mainland China" /\ Reaches(df.rows[i].cells, arg.n)) =>
                ret[i].val = Val(Latest(df) - df.cols[LeftmostReach(df.rows[i].cells, arg.n)])

\* C2 on the rows that never fall: there the smallest value >= n stands in
\* the leftmost column that reaches n, and the code returns the days since
\* that column.
C2_LeftmostWhenNonDecreasing ==
    pc = "days_done" =>
        \A i \in DOMAIN df.rows :
            (df.rows[i].key # "Mainland China" /\ Reaches(df.rows[i].cells, arg.n)
                /\ NonDecreasing(df, df.rows[i].cells)) =>
                ret[i].val = Val(Latest(df) - df.cols[LeftmostReach(df.rows[i].cells, arg.n)])

RawDays(t, cells, n) ==
    IF Reaches(cells, n) THEN Latest(t) - t.cols[SmallestReach(cells, n)] ELSE 0

\* C7: the 'Mainland China' row gets the raw value plus exactly 30, every
\* other row gets the raw value; with no 'Mainland China' row nothing is
\* adjusted.
C7_ChinaPlus30 ==
    pc = "days_done" =>
        /\ Len(ret) = Len(df.rows)
        /\ \A i \in DOMAIN df.rows :
              /\ ret[i].key = df.rows[i].key
              /\ ret[i].val = Val(RawDays(df, df.rows[i].cells, arg.n)
                                  + (IF df.rows[i].key = "Mainland China" THEN 30 ELSE 0))

\* 'Mainland China' and another country both reach the threshold, at
\* different dates
C7_Witness ==
    /\ pc = "days_done"
    /\ \E i, q \in DOMAIN df.rows :
          /\ df.rows[i].key = "Mainland China"
          /\ df.rows[q].key # "Mainland China"
          /\ Reaches(df.rows[i].cells, arg.n)
          /\ Reaches(df.rows[q].cells, arg.n)
          /\ ret[i].val # Val(30)
          /\ ret[q].val # Val(0)
          /\ ret[i].val # ret[q].val

(***************************************************************************)
(* _get_most_recent_value                                                  *)
(***************************************************************************)
\* wb_series[wb_series.columns[k::]]: the table without its k leading columns
DropLeading(t, k) ==
    LET width == IF Len(t.cols) > k THEN Len(t.cols) - k ELSE 0
    IN  [cols |-> [n \in 1..width |-> t.cols[n + k]],
         rows |-> [i \in DOMAIN t.rows |->
                     [key |-> t.rows[i].key,
                      cells |-> [n \in 1..width |-> t.rows[i].cells[n + k]]]]]

\* a helper that returns the earliest value, row_nn[0]
_helper_first(row) ==
    LET row_nn == Where([j \in DOMAIN row |-> NotNull(row[j])])
    IN  IF Len(row_nn) > 0 THEN row[row_nn[1]] ELSE NaN

\* row_nn = row[row.notnull()]; row_nn[-1] if len(row_nn) else np.nan
_helper(row) ==
    LET row_nn == Where([j \in DOMAIN row |-> NotNull(row[j])])
    IN  IF Len(row_nn) > 0 THEN row[row_nn[Len(row_nn)]] ELSE NaN

_get_most_recent_value(wb_series) ==
    LET ts_data == DropLeading(wb_series, 3)
    IN  [i \in DOMAIN ts_data.rows |->
            [key |-> ts_data.rows[i].key, val |-> _helper(ts_data.rows[i].cells)]]

(***************************************************************************)
(* Specification SpecRecent: _get_most_recent_value on a covariate panel   *)
(***************************************************************************)
RecentMaxTs == 4

RecentKeys == <<"Italy", "US">>

RecentValues == {3, 5}

\* a panel of two countries: 3 leading columns, each holding lead, then the
\* period columns, ts[i] the period cells of row i
Panel(lead, ts) ==
    LET width == 3 + Len(ts[1])
    IN  [cols |-> [j \in 1..width |-> j],
         rows |-> [i \in DOMAIN RecentKeys |->
                     [key |-> RecentKeys[i],
                      cells |-> [j \in 1..width |-> IF j <= 3 THEN lead ELSE ts[i][j - 3]]]]]

\* the leading columns all filled or all empty, up to RecentMaxTs period
\* columns, each period cell a value or a gap
InitRecent ==
    /\ pc = "recent_call"
    /\ \E k \in 0..RecentMaxTs, lead \in {NaN, Val(9)} :
          \E ts \in [DOMAIN RecentKeys -> [1..k -> {NaN} \cup {Val(v) : v \in RecentValues}]] :
              df = Panel(lead, ts)
    /\ arg = <<>>
    /\ ret = None
    /\ Idle

GetMostRecentValue ==
    /\ pc = "recent_call"
    /\ ret' = _get_most_recent_value(df)
    /\ pc' = "recent_done"
    /\ UNCHANGED <<df, arg, all_covid_data, covid_cases_rollup, covid_deaths_rollup, df_out>>

NextRecent == GetMostRecentValue

SpecRecent == InitRecent /\ [][NextRecent]_vars

\* the columns of a row, past the 3 leading ones, that hold a value
Eligible(cells) == {j \in DOMAIN cells : j > 3 /\ cells[j] # NaN}

\* C3: each row's result depends on that row alone: it is the value of the
\* last column past the 3 leading ones that is not null, and the missing
\* value (not 0, not an error) when there is no such column.
C3_LastNonNull ==
    pc = "recent_done" =>
        /\ Len(ret) = Len(df.rows)
        /\ \A i \in DOMAIN df.rows :
              /\ ret[i].key = df.rows[i].key
              /\ ret[i].val =
                    IF Eligible(df.rows[i].cells) = {} THEN NaN
                    ELSE df.rows[i].cells[SetMax(Eligible(df.rows[i].cells))]

\* the row [5, null, 3, null] past filled leading columns gives 3, beside a
\* row of nulls that gives the missing value
C3_Witness ==
    /\ pc = "recent_done"
    /\ df.rows[1].cells = <<Val(9), Val(9), Val(9), Val(5), NaN, Val(3), NaN>>
    /\ df.rows[2].cells = <<Val(9), Val(9), Val(9), NaN, NaN, NaN, NaN>>
    /\ ret[1].val = Val(3)
    /\ ret[2].val = NaN

(***************************************************************************)
(* _normalize_col (build_features.py)                                      *)
(* A float result is a cell: NaN, or <<[k, n, d]>> where k = "frac" is the *)
(* number n / d (d > 0, in lowest terms), k = "root" is                    *)
(* sign(n) * sqrt(|n| / d), and k = "inf" is the infinity of sign n.       *)
(***************************************************************************)
Inf(sign) == [k |-> "inf", n |-> sign, d |-> 0]

Abs(x) == IF x < 0 THEN -x ELSE x

RECURSIVE GCD(_, _)
GCD(a, b) == IF b = 0 THEN a ELSE GCD(b, a % b)

\* the number a / b, b # 0, in lowest terms with a positive denominator
Frac(a, b) ==
    LET g == GCD(Abs(a), Abs(b))
        sgn == IF b < 0 THEN -1 ELSE 1
    IN  [k |-> "frac", n |-> (sgn * a) \div g, d |-> Abs(b) \div g]

\* float division of two cells: a missing operand gives NaN, 0 / 0 gives
\* NaN, x / 0 gives an infinity; nothing is raised
Div(a, b) ==
    IF IsNull(a) \/ IsNull(b) THEN NaN
    ELSE IF b[1] = 0 THEN (IF a[1] = 0 THEN NaN ELSE Val(Inf(IF a[1] > 0 THEN 1 ELSE -1)))
    ELSE Val(Frac(a[1], b[1]))

\* a - b on cells
Sub(a, b) == IF IsNull(a) \/ IsNull(b) THEN NaN ELSE Val(a[1] - b[1])

Present(cells) == {cells[i][1] : i \in {j \in DOMAIN cells : NotNull(cells[j])}}

\* df[colname].max() and .min(): over the values present, NaN when none is
ColMax(cells) == IF Present(cells) = {} THEN NaN ELSE Val(SetMax(Present(cells)))

ColMin(cells) == IF Present(cells) = {} THEN NaN ELSE Val(SetMin(Present(cells)))

\* (x - mu) / sig with mu the mean and sig the sample standard deviation
\* (ddof = 1) of the values present: with cnt values of sum S and sum of
\* squares Q, the square of the result is
\*   (cnt*x - S)^2 * (cnt - 1) / (cnt * (cnt*Q - S^2))
ZScore(x, cells) ==
    LET idx == Where([j \in DOMAIN cells |-> NotNull(cells[j])])
        cnt == Len(idx)
        S == SeqSum([q \in DOMAIN idx |-> cells[idx[q]][1]])
        Q == SeqSum([q \in DOMAIN idx |-> cells[idx[q]][1] * cells[idx[q]][1]])
        spread == cnt * Q - S * S
        dev == cnt * x[1] - S
    IN  IF IsNull(x) \/ cnt <= 1 THEN NaN
        ELSE IF spread = 0 THEN (IF dev = 0 THEN NaN ELSE Val(Inf(IF dev > 0 THEN 1 ELSE -1)))
        ELSE LET f == Frac(dev * dev * (cnt - 1), cnt * spread)
             IN  Val([k |-> "root", n |-> (IF dev < 0 THEN -f.n ELSE f.n), d |-> f.d])

\* the three branches with 'upper' and 'lower' taking each other's anchor
NormalizeSwapped(cells, how) ==
    LET maxval == ColMax(cells)
        minval == ColMin(cells)
    IN  [i \in DOMAIN cells |->
            CASE how = "mean" -> ZScore(cells[i], cells)
              [] how = "upper" -> Div(Sub(cells[i], minval), Sub(maxval, minval))
              [] how = "lower" -> Div(Sub(cells[i], maxval), Sub(maxval, minval))]

\* the values of the new column under each policy
Normalize(cells, how) ==
    LET maxval == ColMax(cells)
        minval == ColMin(cells)
    IN  [i \in DOMAIN cells |->
            CASE how = "mean" -> ZScore(cells[i], cells)
              [] how = "upper" -> Div(Sub(cells[i], maxval), Sub(maxval, minval))
              [] how = "lower" -> Div(Sub(cells[i], minval), Sub(maxval, minval))]

\* a column label: the name and what '%s_normalized' appends to it
Col(name) == [base |-> name, suffix |-> ""]

colname_new(colname) == [base |-> colname, suffix |-> "_normalized"]

ColumnIndex(t, label) == CHOOSE j \in DOMAIN t.cols : t.cols[j] = label

Column(t, label) == [i \in DOMAIN t.rows |-> t.rows[i].cells[ColumnIndex(t, label)]]

\* df[label] = values, label a new column: appended on the right
WithColumn(t, label, values) ==
    [cols |-> Append(t.cols, label),
     rows |-> [i \in DOMAIN t.rows |->
                 [key |-> t.rows[i].key, cells |-> Append(t.rows[i].cells, values[i])]]]

_normalize_col(t, colname, how) ==
    IF how \in {"mean", "upper", "lower"}
    THEN WithColumn(t, colname_new(colname), Normalize(Column(t, Col(colname)), how))
    ELSE t

(***************************************************************************)
(* Specification SpecNormalize: _normalize_col on a table of covariates    *)
(***************************************************************************)
NormMaxRows == 3

NormMaxVal == 2

NormColumns == <<"days_since_first_case", "cpi_score_2019">>

\* a table with the two columns, one row per country; the column under
\* study holds vals, the other one holds 7 throughout
FeatureTable(colname, vals) ==
    [cols |-> [j \in DOMAIN NormColumns |-> Col(NormColumns[j])],
     rows |-> [i \in DOMAIN vals |->
                 [key |-> SortedCountries[i],
                  cells |-> [j \in DOMAIN NormColumns |->
                               IF NormColumns[j] = colname THEN vals[i] ELSE Val(7)]]]]

InitNormalize ==
    /\ pc = "normalize_call"
    /\ arg \in [colname : Range(NormColumns), how : {"mean", "upper", "lower"}]
    /\ \E k \in 1..NormMaxRows :
          \E vals \in [1..k -> CountCells(NormMaxVal)] : df = FeatureTable(arg.colname, vals)
    /\ ret = None
    /\ Idle

NormalizeCol ==
    /\ pc = "normalize_call"
    /\ df' = _normalize_col(df, arg.colname, arg.how)
    /\ pc' = "normalize_done"
    /\ UNCHANGED <<arg, ret, all_covid_data, covid_cases_rollup, covid_deaths_rollup, df_out>>

NextNormalize == NormalizeCol

SpecNormalize == InitNormalize /\ [][NextNormalize]_vars

\* the input column and the derived column of the finished table
InputColumn == Column(df, Col(arg.colname))

DerivedColumn == Column(df, colname_new(arg.colname))

\* the derived column is the one new column, named '<colname>_normalized',
\* and the columns the table had keep their place and their values
DerivedBesideOriginal ==
    /\ df.cols = <<Col(NormColumns[1]), Col(NormColumns[2]), colname_new(arg.colname)>>
    /\ \A i \in DOMAIN df.rows :
          \A j \in DOMAIN NormColumns :
              NormColumns[j] # arg.colname => df.rows[i].cells[j] = Val(7)

\* under 'upper' the maximum maps to 0 and every value present into [-1, 0];
\* under 'lower' the minimum maps to 0 and every value present into [0, 1]
BoundsHold ==
    \A i \in DOMAIN df.rows :
        NotNull(InputColumn[i]) =>
            LET x == InputColumn[i]
                z == DerivedColumn[i][1]
            IN  /\ NotNull(DerivedColumn[i])
                /\ z.k = "frac"
                /\ arg.how = "upper" => (-z.d <= z.n /\ z.n <= 0)
                /\ arg.how = "lower" => (0 <= z.n /\ z.n <= z.d)
                /\ (arg.how = "upper" /\ x = ColMax(InputColumn)) => z.n = 0
                /\ (arg.how = "lower" /\ x = ColMin(InputColumn)) => z.n = 0

cpi_country_mapping ==
    [k \in {"United States of America", "China"} |->
        IF k = "China" THEN "Mainland China" ELSE "US"]

wb_country_mapping ==
    [k \in {"United States", "Egypt, Arab Rep.", "Hong Kong SAR, China", "Iran, Islamic Rep.",
            "China", "Russian Federation", "Slovak Republic", "Korea, Rep."} |->
        CASE k = "United States" -> "US"
          [] k = "Egypt, Arab Rep." -> "Egypt"
          [] k = "Hong Kong SAR, China" -> "Hong Kong"
          [] k = "Iran, Islamic Rep." -> "Iran"
          [] k = "China" -> "Mainland China"
          [] k = "Russian Federation" -> "Russia"
          [] k = "Slovak Republic" -> "Slovakia"
          [] k = "Korea, Rep." -> "Korea, South"]

wb_covariates ==
    << [code |-> "SH.XPD.OOPC.CH.ZS", name |-> "healthcare_oop_expenditure"],
       [code |-> "SH.MED.BEDS.ZS", name |-> "hospital_beds"],
       [code |-> "HD.HCI.OVRL", name |-> "hci"],
       [code |-> "SP.POP.65UP.TO.ZS", name |-> "population_perc_over65"],
       [code |-> "SP.RUR.TOTL.ZS", name |-> "population_perc_rural"] >>

\* df[label], a Series
ColumnSeries(t, label) ==
    [i \in DOMAIN t.rows |->
        [key |-> t.rows[i].key, val |-> t.rows[i].cells[ColumnIndex(t, label)]]]

SeriesKeys(series) == [i \in DOMAIN series |-> series[i].key]

\* the value a Series holds at a label, NaN when the label is not in it
Lookup(series, k) ==
    IF \E i \in DOMAIN series : series[i].key = k
    THEN series[CHOOSE i \in DOMAIN series : series[i].key = k].val
    ELSE NaN

\* df[label] = series raises ValueError (cannot reindex from a duplicate
\* axis) when the two indexes differ and the Series' index repeats a label
CanAlign(t, series) == SeriesKeys(series) = Keys(t) \/ ~HasDuplicates(SeriesKeys(series))

\* df[label] = series: the Series aligned on the table's index, NaN where
\* the Series has no such label
Assign(t, label, series) ==
    WithColumn(t, label,
               IF SeriesKeys(series) = Keys(t) THEN [i \in DOMAIN series |-> series[i].val]
               ELSE [i \in DOMAIN t.rows |-> Lookup(series, t.rows[i].key)])

\* df.set_index(label, drop=True)
SetIndex(t, label) ==
    LET at == ColumnIndex(t, label)
        keep == Where([j \in DOMAIN t.cols |-> j # at])
    IN  [cols |-> [n \in DOMAIN keep |-> t.cols[keep[n]]],
         rows |-> [i \in DOMAIN t.rows |->
                     [key |-> t.rows[i].cells[at][1],
                      cells |-> [n \in DOMAIN keep |-> t.rows[i].cells[keep[n]]]]]]

\* df.loc[df[label] == value]
SelectRows(t, label, value) ==
    LET keep == Where([i \in DOMAIN t.rows |-> t.rows[i].cells[ColumnIndex(t, label)] = Val(value)])
    IN  [cols |-> t.cols, rows |-> [n \in DOMAIN keep |-> t.rows[keep[n]]]]

\* the first date of the cases table in place of the last
todays_date_first(cases_rollup) == SetMin(Range(cases_rollup.cols))

\* todays_date = covid_cases_rollup.columns.max()
todays_date(cases_rollup) == ColumnsMax(cases_rollup)

\* the index of pd.DataFrame({'cases': s1, 'deaths': s2}): the index the
\* two Series share, or the sorted union of their labels
FrameIndex(s1, s2) ==
    IF SeriesKeys(s1) = SeriesKeys(s2) THEN SeriesKeys(s1)
    ELSE LET both == Range(SeriesKeys(s1)) \cup Range(SeriesKeys(s2))
             at == Where([k \in DOMAIN SortedCountries |-> SortedCountries[k] \in both])
         IN  [n \in DOMAIN at |-> SortedCountries[at[n]]]

\* pd.DataFrame({'cases': cases[todays_date], 'deaths': deaths[todays_date]})
TodaysCounts(cases_rollup, deaths_rollup) ==
    LET today == todays_date(cases_rollup)
        s1 == ColumnSeries(cases_rollup, today)
        s2 == ColumnSeries(deaths_rollup, today)
        index == FrameIndex(s1, s2)
    IN  [cols |-> <<"cases", "deaths">>,
         rows |-> [i \in DOMAIN index |->
                     [key |-> index[i],
                      cells |-> <<Lookup(s1, index[i]), Lookup(s2, index[i])>>]]]

\* df_out.apply(lambda row: row['deaths'] / float(row['cases']), axis=1)
DeathRate(t) ==
    [i \in DOMAIN t.rows |->
        Div(t.rows[i].cells[ColumnIndex(t, "deaths")], t.rows[i].cells[ColumnIndex(t, "cases")])]

\* the Series _add_cpi_data assigns: the score column of the spreadsheet,
\* indexed by country, the CPI names mapped to the time series' names
CpiSeries(cpi_data) ==
    ColumnSeries(RenameIndex(SetIndex(cpi_data, "Country"), cpi_country_mapping), "CPI score 2019")

\* the Series _add_wb_data assigns for one covariate
WbSeries(wb_data, wb_name) ==
    _get_most_recent_value(
        RenameIndex(SetIndex(SelectRows(wb_data, "Series Code", wb_name), "Country Name"),
                    wb_country_mapping))

\* the loop of _add_wb_data, over the first k covariates
RECURSIVE AddWbCovariates(_, _, _)
AddWbCovariates(t, wb_data, k) ==
    IF k = 0 THEN t
    ELSE Assign(AddWbCovariates(t, wb_data, k - 1), wb_covariates[k].name,
                WbSeries(wb_data, wb_covariates[k].code))

\* the Series _add_wb_data_diabetes assigns
DiabetesSeries(wb_data) ==
    _get_most_recent_value(RenameIndex(SetIndex(wb_data, "Country Name"), wb_country_mapping))

\* df_out.isnull().sum(axis=1), one row of it
NumNull(cells) == Cardinality({j \in DOMAIN cells : IsNull(cells[j])})

\* to_drop_idx = df_out.index[num_null > 1]
ToDrop(t) == {t.rows[i].key : i \in {q \in DOMAIN t.rows : NumNull(t.rows[q].cells) > 1}}

(***************************************************************************)
(* Specification SpecMake: make_dataset, statement by statement            *)
(***************************************************************************)
MakeMaxVal == 1

\* cumulative counts over k dates: sequences over 0..maxval that never fall
Cumulative(k, maxval) ==
    {v \in [1..k -> 0..maxval] : \A a, b \in 1..k : a <= b => v[a] <= v[b]}

\* a raw time series: province, Lat and Long columns, then the dates;
\* counts[i] the counts of row i
TimeSeries(keys, dates, counts) ==
    [cols |-> <<ProvinceCol, LatCol, LongCol>> \o dates,
     rows |-> [i \in DOMAIN keys |->
                 [key |-> keys[i],
                  cells |-> <<NaN, Val(1), Val(1)>> \o [j \in DOMAIN dates |-> Val(counts[i][j])]]]]

MakeDates == <<DateCol(1, 22, 20), DateCol(1, 23, 20)>>

\* the deaths file as the cases file is: the same countries and dates; a
\* date ahead; a date behind; a country short
DeathsLayouts ==
    { [keys |-> <<"China", "Italy">>, dates |-> MakeDates, ahead |-> FALSE],
      [keys |-> <<"China", "Italy">>, dates |-> MakeDates \o <<DateCol(1, 24, 20)>>, ahead |-> TRUE],
      [keys |-> <<"China", "Italy">>, dates |-> <<DateCol(1, 22, 20)>>, ahead |-> FALSE],
      [keys |-> <<"China">>, dates |-> MakeDates, ahead |-> FALSE] }

\* the counts of a deaths row: cumulative; under a date ahead of the cases
\* file, one more death than the day before
DeathCounts(layout, maxval) ==
    IF layout.ahead
    THEN {Append(v, v[Len(v)] + 1) : v \in Cumulative(Len(layout.dates) - 1, maxval)}
    ELSE Cumulative(Len(layout.dates), maxval)

\* cases {Italy: [0,1,5], China: [2,2,2]}, deaths {Italy: [0,0,1], China:
\* [0,0,0]} at three dates
ExampleData ==
    LET dates == <<DateCol(1, 22, 20), DateCol(1, 23, 20), DateCol(1, 24, 20)>>
    IN  [confirmed_global |-> TimeSeries(<<"Italy", "China">>, dates, <<<<0, 1, 5>>, <<2, 2, 2>>>>),
         deaths_global |-> TimeSeries(<<"Italy", "China">>, dates, <<<<0, 0, 1>>, <<0, 0, 0>>>>)]

InitMake ==
    /\ pc = "md_start"
    /\ \/ all_covid_data = ExampleData
       \/ \E layout \in DeathsLayouts :
            \E cases \in [1..2 -> Cumulative(Len(MakeDates), MakeMaxVal)],
               deaths \in [DOMAIN layout.keys -> DeathCounts(layout, MakeMaxVal)] :
                all_covid_data =
                    [confirmed_global |-> TimeSeries(<<"China", "Italy">>, MakeDates, cases),
                     deaths_global |-> TimeSeries(layout.keys, layout.dates, deaths)]
    /\ covid_cases_rollup = None
    /\ covid_deaths_rollup = None
    /\ df_out = None
    /\ df = None
    /\ arg = <<>>
    /\ ret = None

\* lines 65-66
MdRollup ==
    /\ pc = "md_start"
    /\ covid_cases_rollup' = _rollup_by_country(all_covid_data.confirmed_global)
    /\ covid_deaths_rollup' = _rollup_by_country(all_covid_data.deaths_global)
    /\ pc' = "md_rolled"
    /\ UNCHANGED <<df, arg, ret, all_covid_data, df_out>>

\* lines 68-72; covid_deaths_rollup[todays_date] raises KeyError when the
\* deaths table has no such column
MdTodaysCounts ==
    /\ pc = "md_rolled"
    /\ IF todays_date(covid_cases_rollup) \in Range(covid_deaths_rollup.cols)
       THEN /\ df_out' = TodaysCounts(covid_cases_rollup, covid_deaths_rollup)
            /\ pc' = "md_counted"
       ELSE /\ pc' = "KeyError"
            /\ UNCHANGED df_out
    /\ UNCHANGED <<df, arg, ret, all_covid_data, covid_cases_rollup, covid_deaths_rollup>>

\* lines 74-75
MdClean ==
    /\ pc = "md_counted"
    /\ df_out' = _clean_country_list(df_out)
    /\ covid_cases_rollup' = _clean_country_list(covid_cases_rollup)
    /\ pc' = "md_cleaned"
    /\ UNCHANGED <<df, arg, ret, all_covid_data, covid_deaths_rollup>>

\* lines 78-80
MdDeathRate ==
    /\ pc = "md_cleaned"
    /\ df_out' = WithColumn(df_out, "death_rate_observed", DeathRate(df_out))
    /\ pc' = "md_rated"
    /\ UNCHANGED <<df, arg, ret, all_covid_data, covid_cases_rollup, covid_deaths_rollup>>

\* the assignment df_out[label] = series, or the ValueError it raises
AssignOrRaise(label, series, next) ==
    IF CanAlign(df_out, series)
    THEN /\ df_out' = Assign(df_out, label, series)
         /\ pc' = next
    ELSE /\ pc' = "ValueError"
         /\ UNCHANGED df_out

\* lines 83-84
MdDaysSince ==
    /\ pc = "md_rated"
    /\ AssignOrRaise("days_since_first_case",
                     _compute_days_since_nth_case(covid_cases_rollup, 1), "md_days")
    /\ UNCHANGED <<df, arg, ret, all_covid_data, covid_cases_rollup, covid_deaths_rollup>>

\* the spreadsheet CPI2019.xlsx: the countries' scores, with or without Italy
CpiFiles ==
    { [cols |-> <<"Country", "ISO3", "CPI score 2019">>,
       rows |-> <<[key |-> 0, cells |-> <<Val("China"), Val("CHN"), Val(41)>>],
                  [key |-> 1, cells |-> <<Val("Italy"), Val("ITA"), Val(53)>>]>>],
      [cols |-> <<"Country", "ISO3", "CPI score 2019">>,
       rows |-> <<[key |-> 0, cells |-> <<Val("China"), Val("CHN"), Val(41)>>]>>] }

\* line 87, _add_cpi_data
MdAddCpi ==
    /\ pc = "md_days"
    /\ \E cpi_data \in CpiFiles :
          AssignOrRaise("cpi_score_2019", CpiSeries(cpi_data), "md_cpi")
    /\ UNCHANGED <<df, arg, ret, all_covid_data, covid_cases_rollup, covid_deaths_rollup>>

\* world_bank_data.csv: one row per country and series, the older of its two
\* years filled; the rows in gaps hold no value at all
WbFile(gaps) ==
    LET names == <<"China", "Italy">>
        count == Len(wb_covariates)
    IN  [cols |-> <<"Country Name", "Country Code", "Series Name", "Series Code", "2017", "2018">>,
         rows |-> [r \in 1..(Len(names) * count) |->
                     LET c == names[((r - 1) \div count) + 1]
                         w == wb_covariates[((r - 1) % count) + 1]
                     IN  [key |-> r - 1,
                          cells |-> <<Val(c), Val(c), Val(w.name), Val(w.code),
                                      IF <<c, w.name>> \in gaps THEN NaN ELSE Val(3), NaN>>]]]

WbFiles ==
    { WbFile({}), WbFile({<<"Italy", "hci">>}),
      WbFile({<<"Italy", "hci">>, <<"Italy", "hospital_beds">>}) }

\* line 90, _add_wb_data
MdAddWb ==
    /\ pc = "md_cpi"
    /\ \E wb_data \in WbFiles :
          IF \A k \in DOMAIN wb_covariates : CanAlign(df_out, WbSeries(wb_data, wb_covariates[k].code))
          THEN /\ df_out' = AddWbCovariates(df_out, wb_data, Len(wb_covariates))
               /\ pc' = "md_wb"
          ELSE /\ pc' = "ValueError"
               /\ UNCHANGED df_out
    /\ UNCHANGED <<df, arg, ret, all_covid_data, covid_cases_rollup, covid_deaths_rollup>>

\* world_bank_diabetes.csv: both countries with a value, or Italy with none
\* and China left out
DiabetesFiles ==
    { [cols |-> <<"Country Name", "Country Code", "Indicator Name", "Indicator Code", "2010", "2019">>,
       rows |-> <<[key |-> 0, cells |-> <<Val("China"), Val("CHN"), Val("d"), Val("SH.STA.DIAB.ZS"), NaN, Val(9)>>],
                  [key |-> 1, cells |-> <<Val("Italy"), Val("ITA"), Val("d"), Val("SH.STA.DIAB.ZS"), Val(4), Val(5)>>]>>],
      [cols |-> <<"Country Name", "Country Code", "Indicator Name", "Indicator Code", "2010", "2019">>,
       rows |-> <<[key |-> 0, cells |-> <<Val("Italy"), Val("ITA"), Val("d"), Val("SH.STA.DIAB.ZS"), NaN, NaN>>]>>] }

\* line 93, _add_wb_data_diabetes
MdAddDiabetes ==
    /\ pc = "md_wb"
    /\ \E wb_data \in DiabetesFiles :
          AssignOrRaise("population_perc_diabetic", DiabetesSeries(wb_data), "md_joined")
    /\ UNCHANGED <<df, arg, ret, all_covid_data, covid_cases_rollup, covid_deaths_rollup>>

\* lines 96-102
MdDropout ==
    /\ pc = "md_joined"
    /\ df_out' = DropRows(df_out, ToDrop(df_out))
    /\ pc' = "md_done"
    /\ UNCHANGED <<df, arg, ret, all_covid_data, covid_cases_rollup, covid_deaths_rollup>>

NextMake ==
    \/ MdRollup
    \/ MdTodaysCounts
    \/ MdClean
    \/ MdDeathRate
    \/ MdDaysSince
    \/ MdAddCpi
    \/ MdAddWb
    \/ MdAddDiabetes
    \/ MdDropout

SpecMake == InitMake /\ [][NextMake]_vars

\* the covariates make_dataset joins: the CPI score, the five World Bank
\* covariates, the diabetes prevalence
CovariateColumns ==
    {"cpi_score_2019", "population_perc_diabetic"}
        \cup {wb_covariates[k].name : k \in DOMAIN wb_covariates}

\* how many covariates a row of the joined table misses
MissingCovariates(t, i) ==
    Cardinality({j \in DOMAIN t.cols : t.cols[j] \in CovariateColumns /\ IsNull(t.rows[i].cells[j])})

\* C1 (as claimed): once every covariate is joined, a row with at most 1
\* missing covariate is kept in the returned table, whatever its cases,
\* deaths and death rate are, and a row with 2 or more is dropped.
C1_DropoutByCovariates ==
    [][(pc = "md_joined" /\ pc' = "md_done") =>
          \A i \in DOMAIN df_out.rows :
              /\ MissingCovariates(df_out, i) <= 1 => df_out.rows[i] \in Range(df_out'.rows)
              /\ MissingCovariates(df_out, i) >= 2 => df_out.rows[i].key \notin Range(Keys(df_out'))]_vars

\* the latest date that both raw files have, as the date's ordinal
LatestCommonDate ==
    SetMax({strptime(x) : x \in Range(DateLabels(all_covid_data.confirmed_global))
                                   \cap Range(DateLabels(all_covid_data.deaths_global))})

\* what a raw file holds for raw country name k at the date of ordinal day:
\* the total over the country's rows, nothing when the file lacks the country
CountAt(t, k, day) ==
    IF k \notin Range(Keys(t)) THEN NaN
    ELSE Val(ColumnTotal(t, k, CHOOSE x \in Range(DateLabels(t)) : strptime(x) = day, Len(t.rows)))

Canonical(k) == IF k \in DOMAIN country_rename THEN country_rename[k] ELSE k

RawCountries ==
    Range(Keys(all_covid_data.confirmed_global)) \cup Range(Keys(all_covid_data.deaths_global))

====
